---- MODULE Spec2Model ----
(***************************************************************************)
(* A model of the DAG execution engine of EasyAgent:                       *)
(*   - backend/FAST/demo_stream_dag.py: run_stream_demo, orchestrator_loop *)
(*     and worker_loop, talking through the tasks and events topics;       *)
(*   - backend/FAST/app.py: dag_width.                                     *)
(* An action is the code a thread runs between two blocking calls          *)
(* (poll, run_agent, commit, join).                                        *)
(***************************************************************************)
EXTENDS Integers, Sequences, FiniteSets, TLC

\* ---------------------------------------------------------------- bounds
MaxNodes == 3        \* node ids are 1..MaxNodes, node lists hold at most MaxNodes entries
MaxWorkers == 2      \* num_workers ranges over 1..MaxWorkers
MaxBatch == 2        \* messages one worker poll returns
MaxFaults == 2       \* redelivered events, redelivered tasks and raising executor calls of a run

Node == 1..MaxNodes

\* the example of the module's __main__: 1 & 2 -> 3 -> 4, run with two workers
ExampleNodes == <<1, 2, 3, 4>>
ExampleEdges == << <<1, 3>>, <<2, 3>>, <<3, 4>> >>
ExampleWorkers == 2
\* the scenario of two nodes and no edge
TwoNodes == <<1, 2>>

VARIABLES
  nodes,          \* run_stream_demo's nodes argument (a list)
  edges,          \* run_stream_demo's edges argument (a list of pairs)
  num_workers,    \* run_stream_demo's num_workers argument
  tasks,          \* the tasks topic: the log of Task Messages
  events,         \* the events topic: the log of Event Messages
  stop_evt,       \* the shared threading.Event
  results_q,      \* the queue the orchestrator hands its result map over in
  opc,            \* orchestrator: "seed", "poll", "returned", "crashed"
  opos,           \* orchestrator consumer: events consumed so far
  in_deg, parents_done, node_outputs, done_count,   \* orchestrator_loop's locals
  wpc,            \* per worker: "poll", "exec", "commit", "stopped"
  wbatch,         \* per worker: offsets of the polled batch still to finish
  wseen,          \* per worker: offsets its consumer's position has passed
  wbuf,           \* per worker: events sent to the producer and not yet on the topic
  fetched,        \* task offsets handed to some worker
  committed,      \* task offsets committed for the worker group
  execs,          \* per node: executor calls that returned (numbers the outputs)
  edups, tdups, raises,   \* counters bounding the environment
  rpc,            \* run_stream_demo: "joinOrch", "joinWorkers", "returned", "idle"
  ret,            \* run_stream_demo's return value
  wd_graph,       \* dag_width's argument: {u: [v1, v2, ...]}
  wd_order,       \* the order list(set) gave the vertices in (line 25)
  wd_pc,          \* dag_width: "none", "call", "done"
  wd_out          \* what the call computed: width, matching, phases, reach

ovars == <<opc, opos, in_deg, parents_done, node_outputs, done_count>>
wvars == <<wpc, wbatch, wseen, wbuf, fetched, committed, execs>>
envvars == <<edups, tdups, raises>>
input == <<nodes, edges, num_workers>>
wdvars == <<wd_graph, wd_order, wd_pc, wd_out>>
vars == <<input, tasks, events, stop_evt, results_q, ovars, wvars, envvars, rpc, ret, wdvars>>

\* ---------------------------------------------------------------- helpers
Range(s) == {s[i] : i \in DOMAIN s}

EmptyMap == [x \in {} |-> 0]

MapPut(f, k, v) == [x \in (DOMAIN f) \cup {k} |-> IF x = k THEN v ELSE f[x]]

\* every list that holds each element of S once
Orderings(S) ==
  {s \in [1..Cardinality(S) -> S] : \A i, j \in 1..Cardinality(S) : i # j => s[i] # s[j]}

Workers == 1..num_workers


\* ---------------------------------------------------------------- graph
\* children[u]: the targets of u's edges, in declaration order
children(u) ==
  LET out == SelectSeq(edges, LAMBDA e : e[1] = u)
  IN [i \in 1..Len(out) |-> out[i][2]]

\* an in-degree that counts the distinct sources of a node, not its edges
InitInDegDistinct ==
  [n \in Range(nodes) \cup {edges[i][2] : i \in DOMAIN edges} |->
     Cardinality({edges[i][1] : i \in {j \in DOMAIN edges : edges[j][2] = n}})]

\* in_deg after the "Build graph" loop
InitInDeg ==
  [n \in Range(nodes) \cup {edges[i][2] : i \in DOMAIN edges} |->
     Cardinality({i \in DOMAIN edges : edges[i][2] = n})]

terminal_nodes == {n \in Range(nodes) : children(n) = <<>>}

total == Len(nodes)

\* ---------------------------------------------------------------- messages
RunId == 1

TaskMsg(node_id, parents, inputs) ==
  [run_id |-> RunId, node_id |-> node_id, agent_id |-> node_id,
   parents |-> parents, inputs |-> inputs]

\* An event as the orchestrator reads it with evt.get: a key the worker did not
\* set reads as None, written 0 for output and NoError for error.
NoError == "None"

Event(typ, node_id, output) ==
  [type |-> typ, run_id |-> RunId, node_id |-> node_id, output |-> output,
   error |-> NoError]

\* {"type": "failed", ..., "error": {"message": str(e)}}
ExcMessage == "executor error"

FailedEvent(node_id) == [Event("failed", node_id, 0) EXCEPT !.error = ExcMessage]

\* str(e) of an exception consumer.commit() raised
CommitErrMessage == "commit failed"

\* the failed event the except branch sends when consumer.commit() raised
CommitFailedEvent(node_id) == [Event("failed", node_id, 0) EXCEPT !.error = CommitErrMessage]

\* the failed events on the topic that report a commit error
CommitFailures == {j \in DOMAIN events : events[j].error = CommitErrMessage}

\* the run_id of another run that shares the events topic
OtherRunId == 2

\* the events of other runs on the topic
Foreign == {j \in DOMAIN events : events[j].run_id # RunId}

\* Whether the environment may inject one more fault (a redelivery, a raising
\* executor call, an event of another run). Faults are explored in the runs of
\* one worker and in the runs of the example; the other runs of several
\* workers are explored fault-free.
FaultsLeft ==
  /\ num_workers = 1 \/ nodes = ExampleNodes
  /\ edups + tdups + raises + Cardinality(Foreign) + Cardinality(CommitFailures) < MaxFaults

\* an orchestrator without the run_id filter
OwnAny(evt) == TRUE

\* if evt.get("run_id") != run_id: continue
Own(evt) == evt.run_id = RunId

\* ---------------------------------------------------------------- orchestrator
\* "enqueue all zero-dep nodes": one send_task per entry of nodes with in_deg 0
SeedTasksAll(ns) == [i \in DOMAIN ns |-> TaskMsg(ns[i], <<>>, <<>>)]

\* a seed loop that stops after the first zero in-degree node
RECURSIVE SeedTasksFirstOnly(_)
SeedTasksFirstOnly(ns) ==
  IF ns = <<>> THEN <<>>
  ELSE IF in_deg[Head(ns)] = 0 THEN <<TaskMsg(Head(ns), <<>>, <<>>)>>
  ELSE SeedTasksFirstOnly(Tail(ns))

RECURSIVE SeedTasks(_)
SeedTasks(ns) ==
  IF ns = <<>> THEN <<>>
  ELSE (IF in_deg[Head(ns)] = 0 THEN <<TaskMsg(Head(ns), <<>>, <<>>)>> ELSE <<>>)
       \o SeedTasks(Tail(ns))

OrchSeed ==
  /\ opc = "seed"
  /\ tasks' = tasks \o SeedTasks(nodes)
  /\ opc' = "poll"
  /\ UNCHANGED <<wdvars, input, events, stop_evt, results_q, opos, in_deg, parents_done,
                 node_outputs, done_count, wvars, envvars, rpc, ret>>

\* a readiness test that also fires below zero
ReadyAtMost(d) == d <= 0

\* a readiness test that fires with one parent still missing
ReadyEarly(d) == d <= 1

\* if in_deg[c] == 0
Ready(d) == d = 0

\* The fan-out loop over children[node_id]; st holds in_deg, parents_done, the
\* tasks topic and whether parents_done[c] raised KeyError. A set iterates in
\* an order the program does not choose: every order is an outcome.
RECURSIVE FanOut(_, _, _, _)
FanOut(cs, p, outs, st) ==
  IF cs = <<>> \/ st.crashed THEN {st}
  ELSE LET c == Head(cs) IN
    IF c \notin DOMAIN st.parents_done
    THEN {[st EXCEPT !.crashed = TRUE]}
    ELSE LET pd == [st.parents_done EXCEPT ![c] = @ \cup {p}]
             deg == [st.in_deg EXCEPT ![c] = @ - 1]
             st1 == [st EXCEPT !.parents_done = pd, !.in_deg = deg]
         IN IF Ready(deg[c])
            THEN UNION {FanOut(Tail(cs), p, outs,
                          [st1 EXCEPT !.tasks = Append(@,
                             TaskMsg(c, ord,
                               [i \in DOMAIN ord |-> [from |-> ord[i], output |-> outs[ord[i]]]]))])
                        : ord \in Orderings(pd[c])}
            ELSE FanOut(Tail(cs), p, outs, st1)

final_results_unfiltered(outs) == outs

final_results(outs) ==
  [n \in {t \in terminal_nodes : t \in DOMAIN outs} |-> outs[n]]

\* the consumer hands over the next event, or (at-least-once) one it handed over before
Deliver(i) ==
  /\ opc = "poll"
  /\ ~stop_evt
  /\ i \in DOMAIN events
  /\ \/ i = opos + 1 /\ opos' = i /\ edups' = edups
     \/ i <= opos /\ FaultsLeft /\ edups' = edups + 1 /\ opos' = opos

\* an event of another run: continue
OrchIgnored ==
  \E i \in DOMAIN events :
    /\ Deliver(i)
    /\ ~Own(events[i])
    /\ UNCHANGED <<wdvars, input, tasks, events, stop_evt, results_q, opc, in_deg, parents_done,
                   node_outputs, done_count, wvars, tdups, raises, rpc, ret>>

\* a started branch that counts the node as done
OrchStartedCounts ==
  \E i \in DOMAIN events :
    /\ Deliver(i)
    /\ Own(events[i])
    /\ events[i].type = "started"
    /\ done_count' = done_count + 1
    /\ UNCHANGED <<wdvars, input, tasks, events, stop_evt, results_q, opc, in_deg, parents_done,
                   node_outputs, wvars, tdups, raises, rpc, ret>>

\* if typ == "started": print
OrchStarted ==
  \E i \in DOMAIN events :
    /\ Deliver(i)
    /\ Own(events[i])
    /\ events[i].type = "started"
    /\ UNCHANGED <<wdvars, input, tasks, events, stop_evt, results_q, opc, in_deg, parents_done,
                   node_outputs, done_count, wvars, tdups, raises, rpc, ret>>

OrchFailed ==
  \E i \in DOMAIN events :
    /\ Deliver(i)
    /\ Own(events[i])
    /\ events[i].type = "failed"
    /\ UNCHANGED <<wdvars, input, tasks, events, stop_evt, results_q, opc, in_deg, parents_done,
                   node_outputs, done_count, wvars, tdups, raises, rpc, ret>>

\* a completed branch that hands the result over and goes on consuming
HandleCompletedNoStop(evt) ==
  LET outs == MapPut(node_outputs, evt.node_id, evt.output)
      dc == done_count + 1
      st0 == [in_deg |-> in_deg, parents_done |-> parents_done,
              tasks |-> tasks, crashed |-> FALSE]
  IN \E st \in FanOut(children(evt.node_id), evt.node_id, outs, st0) :
       /\ node_outputs' = outs
       /\ done_count' = dc
       /\ in_deg' = st.in_deg
       /\ parents_done' = st.parents_done
       /\ tasks' = st.tasks
       /\ IF st.crashed
          THEN opc' = "crashed" /\ UNCHANGED <<results_q, stop_evt>>
          ELSE IF dc = total
          THEN /\ results_q' = Append(results_q, final_results(outs))
               /\ UNCHANGED <<stop_evt, opc>>
          ELSE UNCHANGED <<results_q, stop_evt, opc>>

\* the completed branch, lines 195-213
HandleCompleted(evt) ==
  LET outs == MapPut(node_outputs, evt.node_id, evt.output)
      dc == done_count + 1
      st0 == [in_deg |-> in_deg, parents_done |-> parents_done,
              tasks |-> tasks, crashed |-> FALSE]
  IN \E st \in FanOut(children(evt.node_id), evt.node_id, outs, st0) :
       /\ node_outputs' = outs
       /\ done_count' = dc
       /\ in_deg' = st.in_deg
       /\ parents_done' = st.parents_done
       /\ tasks' = st.tasks
       /\ IF st.crashed
          THEN opc' = "crashed" /\ UNCHANGED <<results_q, stop_evt>>
          ELSE IF dc = total
          THEN /\ results_q' = Append(results_q, final_results(outs))
               /\ stop_evt' = TRUE
               /\ opc' = "returned"
          ELSE UNCHANGED <<results_q, stop_evt, opc>>

OrchCompleted ==
  \E i \in DOMAIN events :
    /\ Deliver(i)
    /\ Own(events[i])
    /\ events[i].type = "completed"
    /\ HandleCompleted(events[i])
    /\ UNCHANGED <<wdvars, input, events, wvars, tdups, raises, rpc, ret>>

\* ---------------------------------------------------------------- worker
Unfetched == (DOMAIN tasks) \ fetched

\* the batches a poll can return: unfetched offsets, in log order
Batches ==
  {b \in UNION {[1..k -> Unfetched] : k \in 1..MaxBatch} :
     \A i \in 1..(Len(b) - 1) : b[i] < b[i + 1]}

\* producer.send: the record is buffered, the sender thread transmits it later
Send(w, evt) == wbuf' = [wbuf EXCEPT ![w] = Append(@, evt)]

WorkerPoll(w) ==
  /\ wpc[w] = "poll"
  /\ ~stop_evt
  /\ \E b \in Batches :
       /\ wbatch' = [wbatch EXCEPT ![w] = b]
       /\ fetched' = fetched \cup Range(b)
       /\ wseen' = [wseen EXCEPT ![w] = @ \cup Range(b)]
       /\ Send(w, Event("started", tasks[b[1]].node_id, 0))
  /\ wpc' = [wpc EXCEPT ![w] = "exec"]
  /\ UNCHANGED <<wdvars, input, tasks, events, stop_evt, results_q, ovars, committed, execs,
                 envvars, rpc, ret>>

\* run_agent returned: send completed, go on to consumer.commit()
WorkerExecOk(w) ==
  /\ wpc[w] = "exec"
  /\ LET n == tasks[Head(wbatch[w])].node_id IN
       /\ execs' = [execs EXCEPT ![n] = @ + 1]
       /\ Send(w, Event("completed", n, execs[n] + 1))
  /\ wpc' = [wpc EXCEPT ![w] = "commit"]
  /\ UNCHANGED <<wdvars, input, tasks, events, stop_evt, results_q, ovars, wbatch, wseen,
                 fetched, committed, envvars, rpc, ret>>

\* the end of one message of the batch: the next one starts, or the poll loop goes on
NextMessage(w, buf) ==
  LET rest == Tail(wbatch[w]) IN
    /\ wbatch' = [wbatch EXCEPT ![w] = rest]
    /\ IF rest = <<>>
       THEN /\ wpc' = [wpc EXCEPT ![w] = "poll"]
            /\ wbuf' = [wbuf EXCEPT ![w] = buf]
       ELSE /\ wpc' = [wpc EXCEPT ![w] = "exec"]
            /\ wbuf' = [wbuf EXCEPT ![w] =
                 Append(buf, Event("started", tasks[rest[1]].node_id, 0))]

\* consumer.commit(): commits the consumer's position, past everything it polled
WorkerCommit(w) ==
  /\ wpc[w] = "commit"
  /\ committed' = committed \cup wseen[w]
  /\ NextMessage(w, wbuf[w])
  /\ UNCHANGED <<wdvars, input, tasks, events, stop_evt, results_q, ovars, wseen, fetched,
                 execs, envvars, rpc, ret>>

\* consumer.commit() raised inside the try block: the except branch sends failed
WorkerCommitFails(w) ==
  /\ wpc[w] = "commit"
  /\ FaultsLeft
  /\ \A k \in DOMAIN wbuf[w] : wbuf[w][k].error # CommitErrMessage
  /\ NextMessage(w, Append(wbuf[w], CommitFailedEvent(tasks[Head(wbatch[w])].node_id)))
  /\ UNCHANGED <<wdvars, input, tasks, events, stop_evt, results_q, ovars, wseen, fetched,
                 committed, execs, envvars, rpc, ret>>

\* run_agent raised and nothing caught it: the finally block runs, the thread ends
WorkerExecRaiseExits(w) ==
  /\ wpc[w] = "exec"
  /\ FaultsLeft
  /\ raises' = raises + 1
  /\ events' = events \o wbuf[w]
  /\ wbuf' = [wbuf EXCEPT ![w] = <<>>]
  /\ wpc' = [wpc EXCEPT ![w] = "stopped"]
  /\ UNCHANGED <<wdvars, input, tasks, stop_evt, results_q, ovars, wbatch, wseen, fetched,
                 committed, execs, edups, tdups, rpc, ret>>

\* run_agent raised: send failed, no commit
WorkerExecRaise(w) ==
  /\ wpc[w] = "exec"
  /\ FaultsLeft
  /\ raises' = raises + 1
  /\ NextMessage(w, Append(wbuf[w], FailedEvent(tasks[Head(wbatch[w])].node_id)))
  /\ UNCHANGED <<wdvars, input, tasks, events, stop_evt, results_q, ovars, wseen, fetched,
                 committed, execs, edups, tdups, rpc, ret>>

\* a stop flag that ends the thread inside run_agent as well
WorkerStopPreempts(w) ==
  /\ wpc[w] \in {"poll", "exec"}
  /\ stop_evt
  /\ events' = events \o wbuf[w]
  /\ wbuf' = [wbuf EXCEPT ![w] = <<>>]
  /\ wpc' = [wpc EXCEPT ![w] = "stopped"]
  /\ UNCHANGED <<wdvars, input, tasks, stop_evt, results_q, ovars, wbatch, wseen, fetched,
                 committed, execs, envvars, rpc, ret>>

\* the loop condition sees the stop flag: consumer.close(), producer.flush(), close()
WorkerStop(w) ==
  /\ wpc[w] = "poll"
  /\ stop_evt
  /\ events' = events \o wbuf[w]
  /\ wbuf' = [wbuf EXCEPT ![w] = <<>>]
  /\ wpc' = [wpc EXCEPT ![w] = "stopped"]
  /\ UNCHANGED <<wdvars, input, tasks, stop_evt, results_q, ovars, wbatch, wseen, fetched,
                 committed, execs, envvars, rpc, ret>>

\* the producer's sender thread puts the oldest buffered record on the events topic
ProducerTransmit(w) ==
  /\ wbuf[w] # <<>>
  /\ events' = Append(events, Head(wbuf[w]))
  /\ wbuf' = [wbuf EXCEPT ![w] = Tail(@)]
  /\ UNCHANGED <<wdvars, input, tasks, stop_evt, results_q, ovars, wpc, wbatch, wseen, fetched,
                 committed, execs, envvars, rpc, ret>>

\* at-least-once: the group is handed an uncommitted task again (rebalance)
TaskRedeliver ==
  /\ FaultsLeft
  /\ \E i \in fetched \ committed : fetched' = fetched \ {i}
  /\ tdups' = tdups + 1
  /\ UNCHANGED <<wdvars, input, tasks, events, stop_evt, results_q, ovars, wpc, wbatch, wseen,
                 wbuf, committed, execs, edups, raises, rpc, ret>>

\* ---------------------------------------------------------------- run_stream_demo
\* orch.join() returned; sleep; stop_evt.set()
CoordOrchJoined ==
  /\ rpc = "joinOrch"
  /\ opc \in {"returned", "crashed"}
  /\ stop_evt' = TRUE
  /\ rpc' = "joinWorkers"
  /\ UNCHANGED <<wdvars, input, tasks, events, results_q, ovars, wvars, envvars, ret>>

\* joins without a timeout: the return waits for every worker thread to end
CoordReturnWaits ==
  /\ rpc = "joinWorkers"
  /\ \A w \in Workers : wpc[w] = "stopped"
  /\ ret' = IF results_q # <<>> THEN Head(results_q) ELSE EmptyMap
  /\ results_q' = IF results_q # <<>> THEN Tail(results_q) ELSE results_q
  /\ rpc' = "returned"
  /\ UNCHANGED <<wdvars, input, tasks, events, stop_evt, ovars, wvars, envvars>>

CoordReturnNothing ==
  /\ rpc = "joinWorkers"
  /\ ret' = EmptyMap
  /\ rpc' = "returned"
  /\ UNCHANGED <<wdvars, input, tasks, events, stop_evt, results_q, ovars, wvars, envvars>>

\* every t.join(timeout=2.0) is over; the result is taken from the queue
CoordReturn ==
  /\ rpc = "joinWorkers"
  /\ ret' = IF results_q # <<>> THEN Head(results_q) ELSE EmptyMap
  /\ results_q' = IF results_q # <<>> THEN Tail(results_q) ELSE results_q
  /\ rpc' = "returned"
  /\ UNCHANGED <<wdvars, input, tasks, events, stop_evt, ovars, wvars, envvars>>

\* ---------------------------------------------------------------- dag_width
\* TLC's integers are 32 bits wide: INF stands for 10**18, above every distance.
INF == 1000000

\* nodes = list(graph.keys() | {v for vs in graph.values() for v in vs}), as a set
WdNodes(graph) == (DOMAIN graph) \cup UNION {Range(graph[u]) : u \in DOMAIN graph}

\* idx = {u: i for i, u in enumerate(nodes)}
Idx(order) == [u \in Range(order) |-> (CHOOSE i \in DOMAIN order : order[i] = u) - 1]

\* an adjacency that takes the target's position among the sorted vertices
\* for its index: adj[iu].append(sorted(nodes).index(v))
AdjSortedIndex(graph, order) ==
  LET idx == [v \in Range(order) |-> Cardinality({x \in Range(order) : x < v})]
  IN [i \in 0..(Len(order) - 1) |->
        LET u == order[i + 1]
        IN IF u \in DOMAIN graph
           THEN [k \in DOMAIN graph[u] |-> idx[graph[u][k]]]
           ELSE <<>>]

\* adj[iu].append(idx[v]), indexed 0..n-1
Adj(graph, order) ==
  LET idx == Idx(order)
  IN [i \in 0..(Len(order) - 1) |->
        LET u == order[i + 1]
        IN IF u \in DOMAIN graph
           THEN [k \in DOMAIN graph[u] |-> idx[graph[u][k]]]
           ELSE <<>>]

\* a loop over adj[x] that leaves after its first entry
PushUnseenHeadOnly(ys, stack, seen) ==
  IF ys = <<>> \/ Head(ys) \in seen THEN [stack |-> stack, seen |-> seen]
  ELSE [stack |-> Append(stack, Head(ys)), seen |-> seen \cup {Head(ys)}]

\* for y in adj[x]: if y not in seen: seen.add(y); stack.append(y)
RECURSIVE PushUnseen(_, _, _)
PushUnseen(ys, stack, seen) ==
  IF ys = <<>> THEN [stack |-> stack, seen |-> seen]
  ELSE IF Head(ys) \in seen THEN PushUnseen(Tail(ys), stack, seen)
  ELSE PushUnseen(Tail(ys), Append(stack, Head(ys)), seen \cup {Head(ys)})

\* while stack: x = stack.pop(); reach[s].add(x); ...   (pops counts the iterations)
RECURSIVE ReachLoop(_, _, _, _, _)
ReachLoop(adj, stack, seen, reach, pops) ==
  IF stack = <<>> THEN [reach |-> reach, pops |-> pops]
  ELSE LET x == stack[Len(stack)]
           r == PushUnseen(adj[x], SubSeq(stack, 1, Len(stack) - 1), seen)
       IN ReachLoop(adj, r.stack, r.seen, reach \cup {x}, pops + 1)

\* a traversal that starts with seen = set()
ReachFromSeenEmpty(adj, s) == ReachLoop(adj, adj[s], {}, {}, 0)

\* stack = list(adj[s]); seen = set(stack); while stack: ...
ReachFrom(adj, s) == ReachLoop(adj, adj[s], Range(adj[s]), {}, 0)

\* the transitive-closure loop: for s in range(n)
ReachAll(adj) == [s \in DOMAIN adj |-> ReachFrom(adj, s)]

\* list(sorted(S))
RECURSIVE Sorted(_)
Sorted(S) ==
  IF S = {} THEN <<>>
  ELSE LET m == CHOOSE x \in S : \A y \in S : x <= y
       IN <<m>> \o Sorted(S \ {m})

\* a bipartite graph that keeps one closure edge per left vertex
BpAdjFirstOnly(reach) ==
  [u \in DOMAIN reach |->
     IF reach[u].reach = {} THEN <<>> ELSE <<Sorted(reach[u].reach)[1]>>]

\* bp_adj = [list(sorted(reach[u])) for u in range(n)]
BpAdj(reach) == [u \in DOMAIN reach |-> Sorted(reach[u].reach)]

\* the inner loop of bfs(): for v in bp_adj[u]
RECURSIVE BfsScan(_, _, _, _, _, _)
BfsScan(vs, u, pairV, q, dist, found) ==
  IF vs = <<>> THEN [q |-> q, dist |-> dist, found |-> found]
  ELSE LET pu == pairV[Head(vs)] IN
    IF pu = -1 THEN BfsScan(Tail(vs), u, pairV, q, dist, TRUE)
    ELSE IF dist[pu] = INF
    THEN BfsScan(Tail(vs), u, pairV, Append(q, pu), [dist EXCEPT ![pu] = dist[u] + 1], found)
    ELSE BfsScan(Tail(vs), u, pairV, q, dist, found)

\* while q: u = q.popleft(); ...
RECURSIVE BfsLoop(_, _, _, _, _)
BfsLoop(bp, pairV, q, dist, found) ==
  IF q = <<>> THEN [dist |-> dist, found |-> found]
  ELSE LET r == BfsScan(bp[Head(q)], Head(q), pairV, Tail(q), dist, found)
       IN BfsLoop(bp, pairV, r.q, r.dist, r.found)

\* the free left vertices, in index order
RECURSIVE FreeFrom(_, _, _)
FreeFrom(u, n, pairU) ==
  IF u = n THEN <<>>
  ELSE (IF pairU[u] = -1 THEN <<u>> ELSE <<>>) \o FreeFrom(u + 1, n, pairU)

\* bfs(): the new dist and found_free
Bfs(bp, n, m) ==
  BfsLoop(bp, m.pairV, FreeFrom(0, n, m.pairU),
          [u \in 0..(n - 1) |-> IF m.pairU[u] = -1 THEN 0 ELSE INF], FALSE)

\* dfs(u): whether it augmented, and pairU, pairV, dist afterwards
RECURSIVE Dfs(_, _, _)
RECURSIVE DfsScan(_, _, _, _)
DfsScan(bp, u, vs, m) ==
  IF vs = <<>> THEN [ok |-> FALSE, m |-> [m EXCEPT !.dist[u] = INF]]
  ELSE LET v == Head(vs)
           pu == m.pairV[v]
       IN IF pu = -1
          THEN [ok |-> TRUE, m |-> [m EXCEPT !.pairU[u] = v, !.pairV[v] = u]]
          ELSE IF m.dist[pu] = m.dist[u] + 1
          THEN LET r == Dfs(bp, pu, m)
               IN IF r.ok
                  THEN [ok |-> TRUE, m |-> [r.m EXCEPT !.pairU[u] = v, !.pairV[v] = u]]
                  ELSE DfsScan(bp, u, Tail(vs), r.m)
          ELSE DfsScan(bp, u, Tail(vs), m)

Dfs(bp, u, m) == DfsScan(bp, u, bp[u], m)

\* a for loop that counts every free u, whether dfs(u) augmented or not
RECURSIVE AugmentCountsTries(_, _, _, _)
AugmentCountsTries(bp, u, n, st) ==
  IF u = n THEN st
  ELSE IF st.m.pairU[u] = -1
  THEN LET r == Dfs(bp, u, st.m)
       IN AugmentCountsTries(bp, u + 1, n, [st EXCEPT !.m = r.m, !.matching = @ + 1])
  ELSE AugmentCountsTries(bp, u + 1, n, st)

\* for u in range(n): if pairU[u] == -1 and dfs(u): matching += 1
RECURSIVE Augment(_, _, _, _)
Augment(bp, u, n, st) ==
  IF u = n THEN st
  ELSE IF st.m.pairU[u] = -1
  THEN LET r == Dfs(bp, u, st.m)
       IN Augment(bp, u + 1, n,
            [st EXCEPT !.m = r.m, !.matching = @ + (IF r.ok THEN 1 ELSE 0)])
  ELSE Augment(bp, u + 1, n, st)

\* one pass of the for loop and no further phase
PhasesOnePass(bp, n, st) ==
  LET b == Bfs(bp, n, st.m)
  IN IF b.found
     THEN [Augment(bp, 0, n, [st EXCEPT !.m.dist = b.dist]) EXCEPT !.phases = @ + 1]
     ELSE st

\* while bfs(): ...   (phases counts the iterations)
RECURSIVE Phases(_, _, _)
Phases(bp, n, st) ==
  LET b == Bfs(bp, n, st.m)
  IN IF b.found
     THEN Phases(bp, n,
            [Augment(bp, 0, n, [st EXCEPT !.m.dist = b.dist]) EXCEPT !.phases = @ + 1])
     ELSE st

WidthIsMatching(n, matching) == matching

WidthAtLeastOne(n, matching) == IF n - matching < 1 THEN 1 ELSE n - matching

WidthPlusMatching(n, matching) == n + matching

\* width = n - matching
Width(n, matching) == n - matching

\* dag_width(graph) with the vertices relabelled in the given order
DagWidthRun(graph, order) ==
  LET n == Len(order)
      adj == Adj(graph, order)
      rf == ReachAll(adj)
      bp == BpAdj(rf)
      st0 == [m |-> [pairU |-> [u \in 0..(n - 1) |-> -1],
                     pairV |-> [u \in 0..(n - 1) |-> -1],
                     dist |-> [u \in 0..(n - 1) |-> 0]],
              matching |-> 0, phases |-> 0]
      st == Phases(bp, n, st0)
  IN [width |-> Width(n, st.matching), matching |-> st.matching, phases |-> st.phases,
      reach |-> [u \in Range(order) |-> {order[i + 1] : i \in rf[Idx(order)[u]].reach}],
      pops |-> [u \in Range(order) |-> rf[Idx(order)[u]].pops]]

dag_width(graph, order) == DagWidthRun(graph, order).width

\* ---------------------------------------------------------------- specification
\* the list that holds the pairs of S in order of source, then target
SortedList(S) ==
  CHOOSE s \in Orderings(S) :
    \A i \in 1..(Len(s) - 1) :
      \/ s[i][1] < s[i + 1][1]
      \/ s[i][1] = s[i + 1][1] /\ s[i][2] < s[i + 1][2]

Graph(ns, es) == [nodes |-> ns, edges |-> es]

\* Every DAG of at most MaxNodes nodes, up to renaming: nodes 1..k listed in a
\* topological order, any set of edges from a smaller to a larger id.
Dags ==
  UNION {{Graph([i \in 1..k |-> i], SortedList(E)) :
            E \in SUBSET {e \in Node \X Node : e[1] < e[2] /\ e[2] <= k}} :
         k \in 0..MaxNodes}

\* Inputs the code accepts that are no DAG over distinct listed ids.
Irregular ==
  { Graph(<<1>>, << <<1, 1>> >>),                        \* self-loop
    Graph(<<1, 2>>, << <<1, 2>>, <<2, 1>> >>),           \* cycle
    Graph(<<1, 2, 3>>, << <<1, 2>>, <<2, 3>>, <<3, 2>> >>),  \* cycle behind a seed
    Graph(<<1, 2>>, << <<1, 2>>, <<1, 2>> >>),           \* edge declared twice
    Graph(<<1, 2, 3>>, << <<1, 3>>, <<1, 3>>, <<2, 3>> >>),
    Graph(<<1, 1>>, <<>>),                               \* node id listed twice
    Graph(<<1, 2>>, << <<1, 3>> >>),                     \* edge to an unlisted id
    Graph(<<1, 2>>, << <<3, 1>> >>) }                    \* edge from an unlisted id

Init ==
  /\ \E g \in Dags \cup Irregular : nodes = g.nodes /\ edges = g.edges
  /\ num_workers \in 1..MaxWorkers
  /\ tasks = <<>>
  /\ events = <<>>
  /\ stop_evt = FALSE
  /\ results_q = <<>>
  /\ opc = "seed"
  /\ opos = 0
  /\ in_deg = InitInDeg
  /\ parents_done = [n \in Range(nodes) |-> {}]
  /\ node_outputs = EmptyMap
  /\ done_count = 0
  /\ wpc = [w \in Workers |-> "poll"]
  /\ wbatch = [w \in Workers |-> <<>>]
  /\ wseen = [w \in Workers |-> {}]
  /\ wbuf = [w \in Workers |-> <<>>]
  /\ fetched = {}
  /\ committed = {}
  /\ execs = [n \in Node |-> 0]
  /\ edups = 0
  /\ tdups = 0
  /\ raises = 0
  /\ rpc = "joinOrch"
  /\ ret = EmptyMap
  /\ wd_graph = EmptyMap
  /\ wd_order = <<>>
  /\ wd_pc = "none"
  /\ wd_out = EmptyMap

Next ==
  \/ OrchSeed
  \/ OrchStarted
  \/ OrchCompleted
  \/ OrchFailed
  \/ \E w \in Workers : WorkerPoll(w)
  \/ \E w \in Workers : WorkerExecOk(w)
  \/ \E w \in Workers : WorkerCommit(w)
  \/ \E w \in Workers : WorkerExecRaise(w)
  \/ \E w \in Workers : WorkerStop(w)
  \/ \E w \in Workers : ProducerTransmit(w)
  \/ TaskRedeliver
  \/ CoordOrchJoined
  \/ CoordReturn

Spec == Init /\ [][Next]_vars

\* ---------------------------------------------------------------- dag_width alone
MaxWidthNodes == 4   \* dag_width is called on graphs of at most MaxWidthNodes vertices

\* the value lists of the dict: the targets in ascending or in descending order
ListOf(S, desc) ==
  LET up == Sorted(S)
  IN IF desc THEN [i \in DOMAIN up |-> up[Len(up) + 1 - i]] ELSE up

\* the dict: every vertex a key, or no key for a vertex that is only a target
MkGraph(k, E, allKeys, desc) ==
  [u \in {x \in 1..k : allKeys \/ (\E e \in E : e[1] = x) \/ ~(\E e \in E : e[2] = x)} |->
     ListOf({e[2] : e \in {d \in E : d[1] = u}}, desc)]

\* Every DAG of k vertices up to renaming (edges from a smaller to a larger
\* vertex; wd_order renames), and for k < MaxWidthNodes the same with one more
\* edge that goes backwards or is a self-loop.
WdEdgeSets(k) ==
  LET fwd == SUBSET {e \in (1..k) \X (1..k) : e[1] < e[2]}
      back == {e \in (1..k) \X (1..k) : e[1] >= e[2]}
  IN fwd \cup (IF k < MaxWidthNodes THEN {F \cup {b} : F \in fwd, b \in back} ELSE {})

WdPlainGraphs ==
  UNION {{MkGraph(k, E, allKeys, desc) : E \in WdEdgeSets(k), allKeys \in BOOLEAN, desc \in BOOLEAN} :
         k \in 0..MaxWidthNodes}

\* the graphs of fewer than MaxWidthNodes vertices with a list that names its
\* first target once more: {u: [v1, ..., v1]}
WdRepeatedGraphs ==
  UNION {{[g EXCEPT ![u] = Append(@, @[1])] : u \in {x \in DOMAIN g : g[x] # <<>>}} :
         g \in {h \in WdPlainGraphs : Cardinality(WdNodes(h)) < MaxWidthNodes}}

WdGraphs == WdPlainGraphs \cup WdRepeatedGraphs

WdInit ==
  /\ wd_graph \in WdGraphs
  /\ wd_order \in Orderings(WdNodes(wd_graph))
  /\ wd_pc = "call"
  /\ wd_out = EmptyMap
  /\ nodes = <<>> /\ edges = <<>> /\ num_workers = 0
  /\ tasks = <<>> /\ events = <<>> /\ stop_evt = FALSE /\ results_q = <<>>
  /\ opc = "idle" /\ opos = 0 /\ in_deg = EmptyMap /\ parents_done = EmptyMap
  /\ node_outputs = EmptyMap /\ done_count = 0
  /\ wpc = EmptyMap /\ wbatch = EmptyMap /\ wseen = EmptyMap /\ wbuf = EmptyMap
  /\ fetched = {} /\ committed = {} /\ execs = [n \in Node |-> 0]
  /\ edups = 0 /\ tdups = 0 /\ raises = 0
  /\ rpc = "idle" /\ ret = EmptyMap

WdCall ==
  /\ wd_pc = "call"
  /\ wd_out' = DagWidthRun(wd_graph, wd_order)
  /\ wd_pc' = "done"
  /\ UNCHANGED <<wd_graph, wd_order, input, tasks, events, stop_evt, results_q, ovars,
                 wvars, envvars, rpc, ret>>

WdNext == WdCall

SpecWidth == WdInit /\ [][WdNext]_vars

\* ---------------------------------------------------------------- a shared events topic
\* A worker of another run publishes an event on the events topic: a completed
\* event, the one type whose handler changes orchestrator state, for a node id
\* this run uses too.
OtherRunPublishes ==
  /\ opc \in {"seed", "poll"}
  /\ FaultsLeft
  /\ \E n \in Range(nodes) :
       events' = Append(events, [Event("completed", n, 0) EXCEPT !.run_id = OtherRunId])
  /\ UNCHANGED <<wdvars, input, tasks, stop_evt, results_q, ovars, wvars, envvars, rpc, ret>>

\* the runs of one worker in which every executor call returns and every task
\* is handed out once, on a topic that other runs publish to
SharedInit == Init /\ num_workers = 1 /\ Graph(nodes, edges) \in Dags

SharedNext ==
  \/ OrchSeed
  \/ OrchStarted
  \/ OrchCompleted
  \/ OrchIgnored
  \/ OtherRunPublishes
  \/ \E w \in Workers : WorkerPoll(w)
  \/ \E w \in Workers : WorkerExecOk(w)
  \/ \E w \in Workers : WorkerCommit(w)
  \/ \E w \in Workers : WorkerStop(w)
  \/ \E w \in Workers : ProducerTransmit(w)
  \/ CoordOrchJoined
  \/ CoordReturn

SpecShared == SharedInit /\ [][SharedNext]_vars

\* ---------------------------------------------------------------- transport errors
\* the runs of one worker in which every task is handed out once, an executor
\* call can raise and consumer.commit() can raise
TransportInit == Init /\ num_workers = 1 /\ Graph(nodes, edges) \in Dags

TransportNext ==
  \/ OrchSeed
  \/ OrchStarted
  \/ OrchCompleted
  \/ OrchFailed
  \/ \E w \in Workers : WorkerPoll(w)
  \/ \E w \in Workers : WorkerExecOk(w)
  \/ \E w \in Workers : WorkerExecRaise(w)
  \/ \E w \in Workers : WorkerCommit(w)
  \/ \E w \in Workers : WorkerCommitFails(w)
  \/ \E w \in Workers : WorkerStop(w)
  \/ \E w \in Workers : ProducerTransmit(w)
  \/ CoordOrchJoined
  \/ CoordReturn

SpecTransport == TransportInit /\ [][TransportNext]_vars

\* ---------------------------------------------------------------- the example
\* the example's graph as dag_width takes it: {u: [v1, v2, ...]}
ExampleGraph ==
  [u \in {e[1] : e \in Range(ExampleEdges)} |->
     LET out == SelectSeq(ExampleEdges, LAMBDA e : e[1] = u)
     IN [i \in 1..Len(out) |-> out[i][2]]]

TwoNodeGraph == [u \in Range(TwoNodes) |-> <<>>]

\* run_stream_demo(nodes, edges, num_workers) on the example or on the two nodes
ExampleRunInit ==
  /\ \/ nodes = ExampleNodes /\ edges = ExampleEdges
     \/ nodes = TwoNodes /\ edges = <<>>
  /\ num_workers \in 1..ExampleWorkers
  /\ tasks = <<>> /\ events = <<>> /\ stop_evt = FALSE /\ results_q = <<>>
  /\ opc = "seed" /\ opos = 0 /\ in_deg = InitInDeg
  /\ parents_done = [n \in Range(nodes) |-> {}]
  /\ node_outputs = EmptyMap /\ done_count = 0
  /\ wpc = [w \in Workers |-> "poll"] /\ wbatch = [w \in Workers |-> <<>>]
  /\ wseen = [w \in Workers |-> {}] /\ wbuf = [w \in Workers |-> <<>>]
  /\ fetched = {} /\ committed = {} /\ execs = [n \in Range(nodes) |-> 0]
  /\ edups = 0 /\ tdups = 0 /\ raises = 0
  /\ rpc = "joinOrch" /\ ret = EmptyMap
  /\ wd_graph = EmptyMap /\ wd_order = <<>> /\ wd_pc = "none" /\ wd_out = EmptyMap

\* dag_width on the graph of the example or of the two nodes
ExampleWidthInit ==
  /\ wd_graph \in {ExampleGraph, TwoNodeGraph}
  /\ wd_order \in Orderings(WdNodes(wd_graph))
  /\ wd_pc = "call"
  /\ wd_out = EmptyMap
  /\ nodes = <<>> /\ edges = <<>> /\ num_workers = 0
  /\ tasks = <<>> /\ events = <<>> /\ stop_evt = FALSE /\ results_q = <<>>
  /\ opc = "idle" /\ opos = 0 /\ in_deg = EmptyMap /\ parents_done = EmptyMap
  /\ node_outputs = EmptyMap /\ done_count = 0
  /\ wpc = EmptyMap /\ wbatch = EmptyMap /\ wseen = EmptyMap /\ wbuf = EmptyMap
  /\ fetched = {} /\ committed = {} /\ execs = EmptyMap
  /\ edups = 0 /\ tdups = 0 /\ raises = 0
  /\ rpc = "idle" /\ ret = EmptyMap

ExampleInit == ExampleRunInit \/ ExampleWidthInit

\* the example with every executor call returning and every task handed out
\* once; events can reach the orchestrator more than once
ExampleNext ==
  \/ OrchSeed
  \/ OrchStarted
  \/ OrchCompleted
  \/ \E w \in Workers : WorkerPoll(w)
  \/ \E w \in Workers : WorkerExecOk(w)
  \/ \E w \in Workers : WorkerCommit(w)
  \/ \E w \in Workers : WorkerStop(w)
  \/ \E w \in Workers : ProducerTransmit(w)
  \/ CoordOrchJoined
  \/ CoordReturn
  \/ WdCall

SpecExample == ExampleInit /\ [][ExampleNext]_vars

\* ---------------------------------------------------------------- vocabulary of the claims
Parents(c) == {edges[i][1] : i \in {j \in DOMAIN edges : edges[j][2] = c}}

\* the ids some path of declared edges leads to from u
RECURSIVE ReachIn(_, _)
ReachIn(S, k) ==
  IF k = 0 THEN S
  ELSE ReachIn(S \cup {e[2] : e \in {d \in Range(edges) : d[1] \in S}}, k - 1)

Descendants(u) ==
  ReachIn({e[2] : e \in {d \in Range(edges) : d[1] = u}}, Len(edges))

DistinctIds == Cardinality(Range(nodes)) = Len(nodes)

EndpointsListed == \A e \in Range(edges) : e[1] \in Range(nodes) /\ e[2] \in Range(nodes)

Acyclic == \A n \in Node : n \notin Descendants(n)

ProperDag == DistinctIds /\ EndpointsListed /\ Acyclic

Published(n) == {i \in DOMAIN tasks : tasks[i].node_id = n}

Observed(n) == n \in DOMAIN node_outputs

\* no node's completed event has been handed to the orchestrator twice
NoDuplicateSeen == done_count = Cardinality(DOMAIN node_outputs)

Signalled == opc = "returned"

\* ---------------------------------------------------------------- claims

\* C1: a Task Message for a child has been published only if a completed event
\* has been observed for every declared parent of the child, also when events
\* are delivered more than once.
C1_CausalOrdering ==
  \A i \in DOMAIN tasks : \A p \in Parents(tasks[i].node_id) : Observed(p)

\* C2: under normal operation (no completed event seen twice, distinct ids, an
\* acyclic graph) a node is published only with its in-degree counter at zero,
\* and when the run is signalled complete every node has exactly one Task Message.
C2_ExactlyOnce ==
  (NoDuplicateSeen /\ DistinctIds /\ Acyclic) =>
    /\ \A i \in DOMAIN tasks : in_deg[tasks[i].node_id] = 0
    /\ Signalled => \A n \in Range(nodes) : Cardinality(Published(n)) = 1

C2_Witness ==
  /\ NoDuplicateSeen /\ ProperDag /\ Signalled
  /\ \E i \in DOMAIN tasks : Len(tasks[i].parents) = 2

\* C3: a completed event for a node whose output is already recorded changes
\* neither done_count nor any in-degree counter and publishes nothing.
C3_Idempotent ==
  [][\A i \in DOMAIN events :
       (Deliver(i) /\ events[i].type = "completed" /\ Observed(events[i].node_id))
         => (done_count' = done_count /\ in_deg' = in_deg /\ tasks' = tasks)]_vars

\* C4: completion is signalled only with done_count equal to the node count, and
\* the result map handed over holds exactly the listed nodes without children
\* whose output is recorded, each with the output of a completed event of that node.
ResultOk(m) ==
  /\ DOMAIN m = {n \in Range(nodes) : Observed(n) /\ \A e \in Range(edges) : e[1] # n}
  /\ \A n \in DOMAIN m :
       /\ m[n] = node_outputs[n]
       /\ \E j \in 1..opos : events[j] = Event("completed", n, m[n])

C4_TerminalResult ==
  /\ \A i \in DOMAIN results_q : ResultOk(results_q[i]) /\ Signalled
  /\ Signalled => (done_count = total /\ (rpc # "returned" => Len(results_q) = 1))

C4_Witness ==
  /\ results_q # <<>>
  /\ DOMAIN Head(results_q) # {}
  /\ DOMAIN Head(results_q) # DOMAIN node_outputs

\* C5: a run of a non-empty DAG in which no executor call raises gets every
\* node dispatched and then signals completion. The orchestrator publishes
\* nothing once it has signalled, so the claim is stated on that state.
C5_AllDispatched ==
  (ProperDag /\ nodes # <<>> /\ raises = 0 /\ Signalled) =>
    \A n \in Range(nodes) : Published(n) # {}

\* C6: while some node with children has no completed event observed, a DAG's
\* run is not signalled complete and no result map exists.
C6_NoPartialResult ==
  (ProperDag /\ \E n \in Range(nodes) : children(n) # <<>> /\ ~Observed(n)) =>
    (~Signalled /\ results_q = <<>> /\ ret = EmptyMap)

\* C7: when only Task Messages are delivered more than once (no event is
\* redelivered, no executor call raises), completion is signalled only with
\* every node completed and the result map holds every terminal node.
C7_DuplicateTaskTolerated ==
  (ProperDag /\ edups = 0 /\ raises = 0 /\ Signalled) =>
    /\ \A n \in Range(nodes) : Observed(n)
    /\ \A i \in DOMAIN results_q : DOMAIN results_q[i] = terminal_nodes

\* C9: run_stream_demo returns the orchestrator's terminal-node result map
\* when the run was signalled complete and the empty map when it was not.
C9_ReturnValue ==
  rpc = "returned" =>
    ret = IF Signalled
          THEN [n \in {t \in Range(nodes) : Observed(t) /\ children(t) = <<>>} |->
                  node_outputs[n]]
          ELSE EmptyMap

C9_Witness == rpc = "returned" /\ Signalled /\ DOMAIN ret # {}

\* C10: an offset of the tasks topic is committed only when a completed or
\* failed event of that task is on the events topic.
C10_CommitAfterPublish ==
  \A i \in committed :
    \E j \in DOMAIN events :
      /\ events[j].node_id = tasks[i].node_id
      /\ events[j].type \in {"completed", "failed"}
\* the pairs (u, v) with a path of at least one edge of the graph from u to v
WdEdges(graph) == {<<u, v>> \in WdNodes(graph) \X WdNodes(graph) :
                     u \in DOMAIN graph /\ v \in Range(graph[u])}

RECURSIVE Closure(_, _)
Closure(R, k) ==
  IF k = 0 THEN R
  ELSE Closure(R \cup {<<e[1], f[2]>> : <<e, f>> \in {p \in R \X R : p[1][2] = p[2][1]}}, k - 1)

WdPaths(graph) == Closure(WdEdges(graph), Cardinality(WdNodes(graph)))

WdIsDag(graph) == \A v \in WdNodes(graph) : <<v, v>> \notin WdPaths(graph)

MaxCard(F) ==
  CHOOSE k \in 0..Cardinality(UNION F) :
    (\E S \in F : Cardinality(S) = k) /\ \A S \in F : Cardinality(S) <= k

Antichains(V, P) == {S \in SUBSET V : \A a, b \in S : <<a, b>> \notin P}

Matchings(P) ==
  {M \in SUBSET {e \in P : e[1] # e[2]} :
     \A e, f \in M : e # f => (e[1] # f[1] /\ e[2] # f[2])}

\* C8: on a DAG dag_width returns the size of a maximum antichain, which is the
\* number of vertices minus the size of a maximum matching of the bipartite
\* graph of the transitive closure.
C8_WidthIsMaxAntichain ==
  wd_pc = "done" =>
    LET V == WdNodes(wd_graph)
        P == WdPaths(wd_graph)
        A == Antichains(V, P)
        M == Matchings(P)
    IN (\A v \in V : <<v, v>> \notin P) =>
         /\ wd_out.width = MaxCard(A)
         /\ wd_out.width = Cardinality(V) - MaxCard(M)

\* a DAG on which the first pass of the for loop does not reach a maximum matching
C8_Witness ==
  /\ wd_pc = "done" /\ WdIsDag(wd_graph)
  /\ wd_out.phases >= 2
  /\ wd_out.width < Cardinality(WdNodes(wd_graph))

\* ---------------------------------------------------------------- claims, continued
\* the events a worker has sent: on the topic or still in a producer's buffer
RECURSIVE Buffered(_)
Buffered(W) ==
  IF W = {} THEN <<>>
  ELSE LET w == CHOOSE x \in W : TRUE IN wbuf[w] \o Buffered(W \ {w})

SentEvents == events \o Buffered(Workers)

FailedSent == {i \in DOMAIN SentEvents : SentEvents[i].type = "failed"}

\* C11: every executor call that raised has been answered by one failed event
\* of a polled task that carries the error message, and a worker thread ends
\* only once the stop flag is set: an executor error ends no worker loop.
C11_ExecutorErrorReported ==
  /\ Cardinality(FailedSent) = raises
  /\ \A i \in FailedSent :
       /\ SentEvents[i].error = ExcMessage
       /\ \E w \in Workers : \E o \in wseen[w] : tasks[o].node_id = SentEvents[i].node_id
  /\ \A w \in Workers : wpc[w] = "stopped" => stop_evt

\* the worker that reported a failure went on and completed a later task
C11_Witness ==
  /\ raises > 0
  /\ \E i, j \in DOMAIN events :
       i < j /\ events[i].type = "failed" /\ events[j].type = "completed"

\* C12: a run whose input is an empty node list or a graph with a cycle (a
\* self-loop included) fails at its start: no Task Message is ever published
\* and the orchestrator never enters its event loop.
InvalidInput == nodes = <<>> \/ ~Acyclic

C12_InvalidInputFailsFast ==
  InvalidInput => (tasks = <<>> /\ opc \in {"seed", "crashed"})

\* C13: a run of a non-empty node list in which every node has a positive
\* in-degree is rejected: the orchestrator never waits for events with
\* nothing dispatched.
NoZeroInDegree == nodes # <<>> /\ \A n \in Range(nodes) : InitInDeg[n] > 0

C13_NoSeedRejected == NoZeroInDegree => opc # "poll"

\* the call has returned an integer width
WdReturned == wd_pc = "done" /\ wd_out.width \in Int

\* C14: dag_width returns no integer width for a graph with a cycle (a
\* self-loop included): the call on such a graph ends in an error.
C14_CycleRejected == WdReturned => WdIsDag(wd_graph)

\* C15: in the example the width is 2; the tasks of 1 and 2 are the first two
\* published, before the orchestrator consumes an event; the task of 3 is
\* published only once 1 and 2 have completed and the task of 4 only once 3
\* has; the result map has exactly the key 4.
SeededFirst(ns) ==
  /\ opc = "seed" => tasks = <<>>
  /\ opc # "seed" =>
       /\ Len(tasks) >= Len(ns)
       /\ \A i \in DOMAIN ns : tasks[i].node_id = ns[i]

ExampleOrder ==
  /\ SeededFirst(<<1, 2>>)
  /\ Published(3) # {} => (Observed(1) /\ Observed(2))
  /\ Published(4) # {} => Observed(3)
  /\ \A i \in DOMAIN results_q : DOMAIN results_q[i] = {4}
  /\ (rpc = "returned" /\ Signalled) => DOMAIN ret = {4}

C15_Example ==
  /\ (wd_pc = "done" /\ wd_graph = ExampleGraph) => wd_out.width = 2
  /\ (nodes = ExampleNodes /\ num_workers = ExampleWorkers) => ExampleOrder

\* C16: with two nodes and no edge both tasks are the first two published,
\* before the orchestrator consumes an event, the width is 2, and the result
\* map of the completed run holds both nodes.
C16_TwoIndependent ==
  /\ (wd_pc = "done" /\ wd_graph = TwoNodeGraph) => wd_out.width = 2
  /\ nodes = TwoNodes =>
       /\ SeededFirst(TwoNodes)
       /\ \A i \in DOMAIN results_q : DOMAIN results_q[i] = Range(TwoNodes)
       /\ (rpc = "returned" /\ Signalled) => DOMAIN ret = Range(TwoNodes)

\* C17: on a graph of n >= 1 vertices and no edge dag_width returns n.
C17_NoEdges ==
  (wd_pc = "done" /\ wd_graph # EmptyMap /\ \A u \in DOMAIN wd_graph : wd_graph[u] = <<>>) =>
    wd_out.width = Cardinality(DOMAIN wd_graph)

C17_Witness ==
  /\ wd_pc = "done"
  /\ Cardinality(DOMAIN wd_graph) >= 3
  /\ \A u \in DOMAIN wd_graph : wd_graph[u] = <<>>

\* the graph is one chain v1 -> v2 -> ... -> vn over all its vertices
IsChain(graph) ==
  /\ WdNodes(graph) # {}
  /\ \E o \in Orderings(WdNodes(graph)) :
       WdEdges(graph) = {<<o[i], o[i + 1]>> : i \in 1..(Len(o) - 1)}

\* C18: on a single chain of n >= 1 vertices dag_width returns 1.
C18_Chain == (wd_pc = "done" /\ IsChain(wd_graph)) => wd_out.width = 1

\* a chain on which the first pass of the for loop leaves a vertex unmatched
C18_Witness ==
  /\ wd_pc = "done" /\ IsChain(wd_graph)
  /\ Cardinality(WdNodes(wd_graph)) >= 3
  /\ wd_out.phases >= 2

\* the graph is a diamond A -> B, A -> C, B -> D, C -> D
IsDiamond(graph) ==
  \E a, b, c, d \in WdNodes(graph) :
    /\ Cardinality({a, b, c, d}) = 4
    /\ WdNodes(graph) = {a, b, c, d}
    /\ WdEdges(graph) = {<<a, b>>, <<a, c>>, <<b, d>>, <<c, d>>}

\* C19: on the diamond dag_width returns 2.
C19_Diamond == (wd_pc = "done" /\ IsDiamond(wd_graph)) => wd_out.width = 2

\* a diamond relabelled so that the first pass matches A with D
C19_Witness == wd_pc = "done" /\ IsDiamond(wd_graph) /\ wd_out.phases >= 2

\* C20: on a DAG the value dag_width returns is at most the number of vertices.
C20_AtMostV ==
  (wd_pc = "done" /\ WdIsDag(wd_graph)) =>
    wd_out.width <= Cardinality(WdNodes(wd_graph))

\* a DAG with edges on which the bound is not attained, and not by one only
C20_Witness ==
  /\ wd_pc = "done" /\ WdIsDag(wd_graph)
  /\ wd_out.matching >= 2
  /\ wd_out.width + wd_out.matching = Cardinality(WdNodes(wd_graph))

\* C21: on the empty graph (no vertex, no edge) dag_width returns 0.
C21_EmptyGraph == (wd_pc = "done" /\ WdNodes(wd_graph) = {}) => wd_out.width = 0

C21_Witness == wd_pc = "done" /\ wd_graph = EmptyMap /\ wd_out.phases = 0

\* some edge (u, v) is declared more than once
HasDuplicateEdge == \E i, j \in DOMAIN edges : i < j /\ edges[i] = edges[j]

\* C22: when an edge is declared more than once the run is the run of the
\* graph with the edge declared once: every node is published at most once
\* and only after every declared parent has completed, and the result map of
\* the completed run holds every terminal node.
C22_DuplicateEdges ==
  (HasDuplicateEdge /\ ProperDag) =>
    /\ \A n \in Range(nodes) : Cardinality(Published(n)) <= 1
    /\ \A i \in DOMAIN tasks : \A p \in Parents(tasks[i].node_id) : Observed(p)
    /\ Signalled => \A n \in Range(nodes) : Cardinality(Published(n)) = 1
    /\ \A i \in DOMAIN results_q : DOMAIN results_q[i] = terminal_nodes

\* the orchestrator has consumed a failed event of n
FailedSeen(n) == \E j \in 1..opos : events[j].type = "failed" /\ events[j].node_id = n

\* consuming a failed event changes no orchestrator state and publishes nothing
FailedFrame ==
  OrchFailed =>
    /\ UNCHANGED <<node_outputs, done_count, in_deg, parents_done>>
    /\ UNCHANGED <<tasks, results_q, stop_evt, opc>>

\* a node whose failed event was consumed and that has no completed event
\* keeps its descendants undispatched and the run unsignalled
FailedStalls ==
  ProperDag =>
    \A n \in Range(nodes) :
      (FailedSeen(n) /\ ~Observed(n)) =>
        /\ \A d \in Descendants(n) : Published(d) = {}
        /\ ~Signalled

\* C23: a failed event for node n changes no orchestrator state and publishes
\* nothing; while n has no completed event no descendant of n is dispatched
\* and completion is not signalled.
C23_FailedStalls == [][FailedFrame]_vars /\ []FailedStalls

\* the Task Message names each declared parent of its node once, with an
\* output some consumed completed event of that parent carried
AggregatesParents(t) ==
  LET ps == Parents(t.node_id) IN
    /\ Len(t.parents) = Cardinality(ps)
    /\ Range(t.parents) = ps
    /\ Len(t.inputs) = Cardinality(ps)
    /\ {t.inputs[k].from : k \in DOMAIN t.inputs} = ps
    /\ \A k \in DOMAIN t.inputs :
         \E j \in 1..opos : events[j] = Event("completed", t.inputs[k].from, t.inputs[k].output)

\* C24: the Task Message published for a non-seed node has one inputs entry
\* per distinct declared parent, each with the output recorded from that
\* parent's completed event, and its parents list names the same parents.
C24_InputsAggregated ==
  ProperDag =>
    \A i \in DOMAIN tasks : InitInDeg[tasks[i].node_id] > 0 => AggregatesParents(tasks[i])

\* the position on the events topic of the first completed event of p that
\* the orchestrator consumed (0 when it consumed none)
FirstArrival(p) ==
  LET js == {j \in 1..opos : events[j].type = "completed" /\ events[j].node_id = p}
  IN IF js = {} THEN 0 ELSE CHOOSE j \in js : \A k \in js : j <= k

\* C25: the inputs of a Task Message are listed in the order in which the
\* parents' completed events arrived at the orchestrator.
C25_ArrivalOrder ==
  \A i \in DOMAIN tasks :
    \A k, l \in DOMAIN tasks[i].inputs :
      k < l => FirstArrival(tasks[i].inputs[k].from) < FirstArrival(tasks[i].inputs[l].from)

\* the orchestrator has run its seed loop and consumed no event yet
Seeded == opc = "poll" /\ opos = 0

\* C26: once the seed loop has run and before any event is consumed, exactly
\* one Task Message is published for each node of in-degree zero and none for
\* a node of positive in-degree, each with empty parents and inputs; nothing
\* is published before the seed loop.
C26_Seeds ==
  /\ opc = "seed" => tasks = <<>>
  /\ Seeded =>
       /\ \A n \in Range(nodes) :
            Cardinality(Published(n)) = (IF InitInDeg[n] = 0 THEN 1 ELSE 0)
       /\ \A i \in DOMAIN tasks :
            /\ tasks[i].node_id \in Range(nodes)
            /\ tasks[i].parents = <<>> /\ tasks[i].inputs = <<>>

\* C26 for a node list that names every node once
C26_SeedsDistinct == DistinctIds => C26_Seeds

C26_Witness ==
  /\ Seeded /\ DistinctIds
  /\ Len(tasks) = 2
  /\ \E n \in Range(nodes) : InitInDeg[n] > 0

\* the completed events of this run that the orchestrator has consumed
OwnCompleted ==
  {j \in 1..opos : events[j].run_id = RunId /\ events[j].type = "completed"}

\* consuming an event of another run changes no orchestrator state and
\* publishes nothing
IgnoredFrame ==
  OrchIgnored =>
    /\ UNCHANGED <<node_outputs, done_count, in_deg, parents_done>>
    /\ UNCHANGED <<tasks, results_q, stop_evt, opc>>

\* what the orchestrator has recorded stems from events of its own run: every
\* output from a completed event of this run, the count from deliveries of
\* such events (each counted once, plus at most the redeliveries)
OwnEventsOnly ==
  /\ \A n \in DOMAIN node_outputs :
       \E j \in OwnCompleted : events[j].node_id = n /\ events[j].output = node_outputs[n]
  /\ done_count >= Cardinality(OwnCompleted)
  /\ done_count <= Cardinality(OwnCompleted) + edups
  /\ \A i \in DOMAIN tasks : \A k \in DOMAIN tasks[i].inputs :
       \E j \in OwnCompleted :
         /\ events[j].node_id = tasks[i].inputs[k].from
         /\ events[j].output = tasks[i].inputs[k].output

\* C27: an event with another run_id changes no state of the orchestrator and
\* triggers no publication: outputs, completed count and published tasks
\* stem from the events of the orchestrator's own run only.
C27_RunIsolation == [][IgnoredFrame]_vars /\ []OwnEventsOnly

\* the orchestrator has consumed a completed event of another run for a node
\* that has not completed in this run, and this run went on to completion
C27_Witness ==
  /\ Signalled /\ NoDuplicateSeen
  /\ \E j \in Foreign :
       /\ j <= opos /\ events[j].type = "completed"
       /\ \A k \in OwnCompleted : events[k].node_id = events[j].node_id => j < k

\* a step publishes a seed node in the seed loop only, and a non-seed node
\* only when its in-degree counter, which never increases, gets down to zero
PublishStep ==
  /\ \A n \in DOMAIN in_deg : in_deg'[n] <= in_deg[n]
  /\ \A i \in (DOMAIN tasks') \ (DOMAIN tasks) :
       LET c == tasks'[i].node_id IN
         IF opc = "seed" THEN InitInDeg[c] = 0
         ELSE in_deg[c] > 0 /\ in_deg'[c] <= 0

PublishedOnce == DistinctIds => \A n \in Range(nodes) : Cardinality(Published(n)) <= 1

\* C28: whatever events arrive, duplicated completed events included, a node
\* list with distinct ids gets at most one Task Message per node: a seed node
\* at start only, any other node only at the one moment its in-degree
\* counter, which only decreases, is zero.
C28_AtMostOnce == []PublishedOnce /\ [][DistinctIds => PublishStep]_vars

\* a duplicated completed event has taken the counter of a published child below zero
C28_Witness ==
  /\ DistinctIds /\ edups > 0
  /\ \E n \in Range(nodes) : in_deg[n] < 0 /\ Cardinality(Published(n)) = 1

\* the nodes that have a Task Message and no completed event observed
InFlight == {n \in Range(nodes) : Published(n) # {} /\ ~Observed(n)}

\* the run's graph as dag_width takes it: {u: children[u]}
RunGraph == [u \in Range(nodes) |-> children(u)]

\* C29: under normal operation on a DAG the nodes dispatched and not yet
\* completed form an antichain (none is reachable from another), so they are
\* never more than dag_width of the graph.
C29_InFlightAntichain ==
  (ProperDag /\ NoDuplicateSeen) =>
    /\ \A a, b \in InFlight : b \notin Descendants(a)
    /\ Cardinality(InFlight) <= dag_width(RunGraph, nodes)

\* two nodes of a graph with edges are in flight together
C29_Witness ==
  /\ ProperDag /\ NoDuplicateSeen /\ edges # <<>>
  /\ Cardinality(InFlight) = 2
  /\ dag_width(RunGraph, nodes) = 2

\* the events of type typ sent for node n
SentFor(n, typ) ==
  {i \in DOMAIN SentEvents : SentEvents[i].node_id = n /\ SentEvents[i].type = typ}

\* C30: for each task it processes a worker sends started first and then
\* exactly one of completed or failed, never both, and failed only if the
\* executor raised for the task, also when consumer.commit() fails. Each
\* task is handed out once here, so the events of a node are those of one task.
C30_OneOutcome ==
  /\ Cardinality(FailedSent) = raises
  /\ \A n \in Range(nodes) :
       /\ Cardinality(SentFor(n, "completed")) + Cardinality(SentFor(n, "failed")) <= 1
       /\ \A i \in SentFor(n, "completed") \cup SentFor(n, "failed") :
            \E j \in SentFor(n, "started") : j < i

\* ---------------------------------------------------------------- scheduling
\* Every worker thread keeps running: an executor call in progress returns or
\* raises, consumer.commit() returns, and poll(timeout_ms=500) returns, so the
\* loop condition is read again.
WorkerFair ==
  \A w \in 1..MaxWorkers :
    /\ WF_vars(w \in Workers /\ (WorkerExecOk(w) \/ WorkerExecRaise(w)))
    /\ WF_vars(w \in Workers /\ WorkerCommit(w))
    /\ WF_vars(w \in Workers /\ WorkerStop(w))

SpecCancel == Init /\ [][Next]_vars /\ WorkerFair

\* The thread of run_stream_demo keeps running: sleep(1.0) and every
\* join(timeout=2.0) return. Nothing is assumed of the workers.
CoordFair == WF_vars(CoordOrchJoined) /\ WF_vars(CoordReturn)

SpecShutdown == Init /\ [][Next]_vars /\ CoordFair

\* ---------------------------------------------------------------- claims, cancellation

\* a worker that reads the stop flag set at its loop condition polls no more
StopChecked ==
  \A w \in Workers :
    (stop_evt /\ wpc[w] = "poll") => wpc'[w] \in {"poll", "stopped"} /\ wbatch'[w] = wbatch[w]

\* a worker inside run_agent leaves it by the call returning or raising
NotPreempted ==
  \A w \in Workers : wpc[w] = "exec" => wpc'[w] \in {"exec", "commit", "poll"}

\* the thread is over and its finally block has closed consumer and producer
Released(w) == wpc[w] = "stopped" /\ wbuf[w] = <<>>

AllLeft == opc \in {"returned", "crashed"} /\ \A w \in Workers : Released(w)

StopLeadsToExit == stop_evt ~> AllLeft

\* C31: the stop flag is read at the loop condition of each poll iteration;
\* once it is set every worker and the orchestrator eventually leave their
\* loops and close their connections, given that executor calls return or
\* raise; a set stop flag never ends an executor call in progress.
C31_Cancellation ==
  /\ [][StopChecked /\ NotPreempted]_vars
  /\ [](stop_evt => opc \in {"returned", "crashed"})
  /\ StopLeadsToExit

\* the stop flag is set, one worker has left and another is inside run_agent
C31_Witness ==
  /\ stop_evt
  /\ \E w \in Workers : wpc[w] = "exec"
  /\ \E w \in Workers : Released(w)

\* ---------------------------------------------------------------- claims, completion signal

AtMostOneResult == Len(results_q) <= 1

\* putting a result sets the stop flag and returns; the flag stays set; a
\* returned orchestrator consumes nothing and publishes nothing
SignalStep ==
  /\ Len(results_q') > Len(results_q) => stop_evt' /\ opc' = "returned"
  /\ stop_evt => stop_evt'
  /\ opc = "returned" => UNCHANGED <<ovars, tasks>>

\* C32: completion is signalled at most once per run: the result queue never
\* holds more than one result map, signalling sets the stop flag, the stop
\* flag is never cleared, and after signalling the orchestrator handles no
\* further event and publishes no further Task Message, also with events
\* left unconsumed.
C32_SignalledOnce == []AtMostOneResult /\ [][SignalStep]_vars

\* signalled, with events on the topic the orchestrator has not consumed
C32_Witness ==
  /\ opc = "returned" /\ stop_evt /\ results_q # <<>>
  /\ opos < Len(events)
  /\ rpc = "joinWorkers"

\* ---------------------------------------------------------------- claims, counters

\* the completed events of this run the orchestrator has consumed
ConsumedCompleted ==
  {i \in 1..opos : events[i].run_id = RunId /\ events[i].type = "completed"}

\* no event was handed over twice and no two consumed completed events are
\* for the same node
NoDuplicatedEvent ==
  /\ edups = 0
  /\ \A i, j \in ConsumedCompleted : i # j => events[i].node_id # events[j].node_id

Incoming(n) == {i \in DOMAIN edges : edges[i][2] = n}

SatisfiedIncoming(n) == {i \in Incoming(n) : edges[i][1] \in DOMAIN node_outputs}

\* C33: with no duplicated event and every edge endpoint listed in nodes, each
\* node's in-degree counter equals its declared incoming edges minus those
\* whose source has completed and is not negative, and done_count equals the
\* number of nodes with a recorded output and does not exceed total.
C33_Counters ==
  (NoDuplicatedEvent /\ EndpointsListed) =>
    /\ \A n \in Range(nodes) :
         /\ in_deg[n] = Cardinality(Incoming(n)) - Cardinality(SatisfiedIncoming(n))
         /\ in_deg[n] >= 0
    /\ done_count = Cardinality(DOMAIN node_outputs)
    /\ done_count <= total

\* two parents have completed and brought a counter from two down to zero
C33_Witness ==
  /\ NoDuplicatedEvent /\ EndpointsListed
  /\ done_count >= 2
  /\ \E n \in Range(nodes) :
       in_deg[n] = 0 /\ Cardinality({edges[i][1] : i \in Incoming(n)}) = 2

\* ---------------------------------------------------------------- claims, dag_width's loops

\* entries of u's adjacency list that repeat an earlier entry
RepeatedEntries(u) ==
  IF u \in DOMAIN wd_graph
  THEN Len(wd_graph[u]) - Cardinality(Range(wd_graph[u]))
  ELSE 0

\* every phase found a free right vertex and added to the matching, and there
\* were at most |V| of them
PhasesBounded ==
  wd_pc = "done" =>
    /\ wd_out.phases <= wd_out.matching
    /\ wd_out.phases <= Cardinality(WdNodes(wd_graph))

\* the traversal from u popped each vertex it reached once
VisitedOnce ==
  wd_pc = "done" =>
    \A u \in WdNodes(wd_graph) : wd_out.pops[u] = Cardinality(wd_out.reach[u])

\* the traversal from u popped each vertex it reached once, and once more for
\* each repeated entry of u's own list
VisitedOncePerEntry ==
  wd_pc = "done" =>
    \A u \in WdNodes(wd_graph) :
      wd_out.pops[u] = Cardinality(wd_out.reach[u]) + RepeatedEntries(u)


\* C34: dag_width terminates on every finite input graph, cyclic or not (the
\* counters below are those of its loops, taken when the call returns): each
\* reachability traversal visits a vertex at most once, and every matching
\* phase whose breadth-first search reports a free right vertex increases the
\* matching by at least one, so the phase loop runs at most |V| times.
C34_Terminates == VisitedOnce /\ PhasesBounded

\* C34, amended: as C34, with a vertex visited once per entry that names it in
\* the start vertex's own list, so at most once when no list repeats an entry.
C34_TerminatesPerEntry == VisitedOncePerEntry /\ PhasesBounded

\* a call on a cyclic graph that ran two phases has returned
C34_Witness ==
  /\ wd_pc = "done"
  /\ ~WdIsDag(wd_graph)
  /\ wd_out.phases >= 2
  /\ \E u \in WdNodes(wd_graph) : wd_out.pops[u] >= 3

\* ---------------------------------------------------------------- claims, order independence

\* every list that holds the entries of l in some order
ListPerms(l) == {[i \in DOMAIN l |-> l[p[i]]] : p \in Orderings(DOMAIN l)}

\* every dict with the keys of g whose lists hold the entries of g's lists in
\* some order
RECURSIVE Reorderings(_, _)
Reorderings(g, keys) ==
  IF keys = {} THEN {g}
  ELSE LET k == CHOOSE x \in keys : TRUE
       IN UNION {Reorderings([g EXCEPT ![k] = l], keys \ {k}) : l \in ListPerms(g[k])}

\* C35: the width dag_width returns for a DAG depends neither on the order in
\* which the vertices are relabelled to indices nor on the order of the
\* entries of the adjacency lists: the call at hand returns what the call with
\* the vertices in ascending order returns, and what the call on every
\* reordering of the lists returns.
C35_OrderIndependent ==
  (wd_pc = "done" /\ WdIsDag(wd_graph)) =>
    /\ dag_width(wd_graph, Sorted(WdNodes(wd_graph))) = wd_out.width
    /\ \A g \in Reorderings(wd_graph, DOMAIN wd_graph) :
         dag_width(g, wd_order) = wd_out.width

\* a call with the vertices relabelled out of order, on a DAG with a list
\* that can be reordered, whose matching has two edges
C35_Witness ==
  /\ wd_pc = "done" /\ WdIsDag(wd_graph)
  /\ wd_order # Sorted(WdNodes(wd_graph))
  /\ Cardinality(Reorderings(wd_graph, DOMAIN wd_graph)) >= 2
  /\ wd_out.matching >= 2 /\ wd_out.width >= 2

\* ---------------------------------------------------------------- claims, reachability

\* the vertices a path of at least one edge leads to from u, paths being the
\* pairs a path joins
ReachableFrom(u, paths) == {v \in WdNodes(wd_graph) : <<u, v>> \in paths}

\* the pairs of vertices joined by edges taken in either direction
WdLinked ==
  LET E == WdEdges(wd_graph)
  IN Closure(E \cup {<<e[2], e[1]>> : e \in E}, Cardinality(WdNodes(wd_graph)))

\* C36: for every DAG and every vertex u, the reachability set dag_width
\* computes for u is exactly the set of vertices a path of at least one edge
\* leads to from u, and does not hold u; no vertex of another connected
\* component is in it.
C36_ReachExact ==
  (wd_pc = "done" /\ WdIsDag(wd_graph)) =>
    LET paths == WdPaths(wd_graph)
        linked == WdLinked
    IN \A u \in WdNodes(wd_graph) :
         /\ wd_out.reach[u] = ReachableFrom(u, paths)
         /\ u \notin wd_out.reach[u]
         /\ \A v \in wd_out.reach[u] : <<u, v>> \in linked

\* a DAG of two components, one of them with a vertex reached over two edges only
C36_Witness ==
  /\ wd_pc = "done" /\ WdIsDag(wd_graph)
  /\ \E u, v \in WdNodes(wd_graph) : u # v /\ <<u, v>> \notin WdLinked
  /\ \E u \in WdNodes(wd_graph) : \E v \in wd_out.reach[u] : <<u, v>> \notin WdEdges(wd_graph)

\* ---------------------------------------------------------------- claims, started events

\* the orchestrator consumes the next event of the topic, a started event of
\* its run
StartedStep ==
  /\ opos' = opos + 1
  /\ events[opos'].run_id = RunId
  /\ events[opos'].type = "started"

StartedFrame ==
  StartedStep =>
    /\ UNCHANGED <<node_outputs, done_count, in_deg, parents_done>>
    /\ UNCHANGED <<tasks, results_q, stop_evt, opc>>

\* C37: a started event changes no orchestrator state: outputs, done_count,
\* in-degree counters and completed-parent sets are unchanged and no Task
\* Message is published.
C37_StartedNoChange == [][StartedFrame]_vars

\* the orchestrator has just consumed a started event, some outputs recorded
C37_Witness ==
  /\ opos >= 2
  /\ events[opos].type = "started" /\ events[opos].run_id = RunId
  /\ done_count >= 1
  /\ opc = "poll"

\* ---------------------------------------------------------------- claims, shutdown

OrchTerminated == opc \in {"returned", "crashed"}

RunReturned == rpc = "returned"

\* run_stream_demo has returned only with the orchestrator thread over and the
\* stop flag set
ReturnedAfterOrch == RunReturned => OrchTerminated /\ stop_evt

OrchEndLeadsToReturn == OrchTerminated ~> RunReturned

\* C38: run_stream_demo returns only after the orchestrator has terminated
\* and with the stop flag set; once the orchestrator has terminated it does
\* return, whatever the workers do, a worker that never leaves its executor
\* call included: the wait on each worker is bounded.
C38_Shutdown == []ReturnedAfterOrch /\ OrchEndLeadsToReturn

\* run_stream_demo has returned with a worker still inside run_agent
C38_Witness ==
  /\ RunReturned
  /\ \E w \in Workers : wpc[w] = "exec"
====
